---- MODULE Spec2Model ----
(***************************************************************************)
(* Model of src/polygon.rs: PolygonData (the lock-guarded polygon state),  *)
(* ParameterPolygon (polygon read once from the parameter server, cache    *)
(* recomputed on every get_lines) and PolygonListener (polygon received    *)
(* from a topic, cache recomputed inside the subscriber callback).         *)
(***************************************************************************)
EXTENDS Integers, Sequences, FiniteSets, TLC

VARIABLES
    param,      \* the value stored on the parameter server under config.parameter
    config,     \* the configuration record each constructor is called with
    built,      \* per polygon: "no" (new not run yet), "ok", "panicked"
    data,       \* per polygon: the PolygonData behind the Arc<RwLock<..>>
    lock,       \* per polygon: the RwLock (writer, readers, poisoned)
    pc,         \* per thread: position in the operation it is running
    ret,        \* per thread: the Vec<Line> its get_lines is about to return
    calls,      \* per thread: lookup_transform calls made by its current operation
    updates,    \* per thread: update() invocations made by its current operation
    tfRes,      \* per thread: what lookup_transform answered in its current operation
    lastRes,    \* per polygon: what lookup_transform answered in the latest update()
    committed,  \* per polygon: the PolygonData as the latest exclusive holder left it
    delivered,  \* the latest message a callback has taken in (None before the first)
    lookups,    \* per thread: the arguments of the lookup_transform calls of its operation
    prevRes,    \* per polygon: lastRes as it was when the write guard was last dropped
    now,        \* the reading of the ROS clock while the constructors run
    queue       \* per polygon: the threads blocked in write() or read(), in order of arrival

vars == <<param, config, built, data, lock, pc, ret, calls, updates, tfRes,
          lastRes, committed, delivered, lookups, prevRes, now, queue>>

-----------------------------------------------------------------------------
(* Bounds of the model                                                      *)

MaxPts == 3        \* longest point list of a delivered PolygonStamped
MaxEntries == 2    \* longest list stored on the parameter server
MaxEntryLen == 3   \* most coordinates in one entry of that list

-----------------------------------------------------------------------------
(* Option, Result                                                           *)

None == [tag |-> "None"]
Some(v) == [tag |-> "Some", v |-> v]
Ok(v) == [tag |-> "Ok", v |-> v]
Err == [tag |-> "Err"]

SeqsUpTo(S, n) == UNION {[1..k -> S] : k \in 0..n}

-----------------------------------------------------------------------------
(* Numbers.  Coordinates are integers; an f32 holds every integer up to    *)
(* 2^24 and, between 2^24 and 2^25, only the even ones.                     *)

F32Exact == 16777216

Abs(v) == IF v < 0 THEN -v ELSE v

\* `v as f32` for an integer-valued f64 with |v| < 2^25: round to nearest,
\* ties to the even mantissa.
AsF32(v) ==
    IF Abs(v) <= F32Exact \/ v % 2 = 0 THEN v
    ELSE IF (v + 1) % 4 = 0 THEN v + 1 ELSE v - 1

\* `v as f64` for an f32: every f32 is an f64, the value is kept.
AsF64(v) == v

-----------------------------------------------------------------------------
(* Inputs                                                                   *)

Polys == {"param", "topic"}
Renderers == {"r1", "r2"}     \* threads that call get_lines
Callbacks == {"cb1", "cb2"}   \* threads the transport runs the subscriber callback on
Threads == Renderers \cup Callbacks
Colors == {"red", "blue"}
StaticFrame == "map"

\* f64 coordinates found on the parameter server
ParamCoords == {1, F32Exact + 1}
\* an entry: x, y and, beyond them, coordinates the code never reads
ParamEntry(x, y, k) == [i \in 1..k |-> IF i = 1 THEN x ELSE IF i = 2 THEN y ELSE 1 + 1]
ParamEntries == {ParamEntry(x, y, k) : x \in ParamCoords, y \in ParamCoords, k \in 0..MaxEntryLen}
Unresolved == [kind |-> "unresolved"]   \* the name does not resolve
Missing == [kind |-> "missing"]         \* no value under the key
ParamValues ==
    {Unresolved, Missing, [kind |-> "string"]}
        \cup {[kind |-> "list", v |-> l] : l \in SeqsUpTo(ParamEntries, MaxEntries)}

\* geometry_msgs/Point32 values a publisher sends
Point32(x, y, z) == [x |-> x, y |-> y, z |-> z]
Points32 == {Point32(0, 0, 0), Point32(1, 2, 3)}
Headers == {[seq |-> 0, stamp |-> 1, frame_id |-> "base"],
            [seq |-> 0, stamp |-> 2, frame_id |-> "odom"]}
Messages ==
    {[header |-> h, polygon |-> [points |-> ps]] :
        h \in Headers, ps \in SeqsUpTo(Points32, MaxPts)}

\* geometry_msgs/Transform values the tf listener answers with
Transforms == {[translation |-> <<0, 0, 0>>, rotation |-> "I"],
               [translation |-> <<1, 2, 0>>, rotation |-> "Z90"],
               [translation |-> <<0, 0, 0>>, rotation |-> "X90"]}
LookupResults == {Ok([transform |-> t]) : t \in Transforms} \cup {Err}

-----------------------------------------------------------------------------
(* get_polygon_from_ros_param, read_points                                  *)

Panic == [tag |-> "Panic"]

\* rosrust::param(name): a handle, or None when the name does not resolve
rosrust_param(p) == IF p.kind = "unresolved" THEN None ELSE Some(p)

\* Parameter::get::<Vec<Vec<f64>>>()
param_get(p) == IF p.kind = "list" THEN Ok(p.v) ELSE Err

\* the loop of lines 16-22: pt[0] and pt[1] index the entry, and an entry
\* shorter than two coordinates makes the index panic
RECURSIVE push_points(_, _, _)
push_points(f, i, points) ==
    IF i > Len(f) THEN Some([points |-> points])
    ELSE IF Len(f[i]) < 2 THEN Panic
    ELSE push_points(f, i + 1,
            Append(points, Point32(AsF32(f[i][1]), AsF32(f[i][2]), 0)))

\* (mutant) a value that does not decode, or no value, gives an empty polygon
get_polygon_or_empty(p) ==
    LET ros_param_polygon == rosrust_param(p) IN
    IF ros_param_polygon.tag = "Some"
    THEN LET fb == param_get(ros_param_polygon.v) IN
         IF fb.tag = "Ok" THEN push_points(fb.v, 1, <<>>) ELSE Some([points |-> <<>>])
    ELSE Some([points |-> <<>>])

get_polygon_from_ros_param(p) ==
    LET ros_param_polygon == rosrust_param(p) IN
    IF ros_param_polygon.tag = "Some"
    THEN LET fb == param_get(ros_param_polygon.v) IN
         IF fb.tag = "Ok" THEN push_points(fb.v, 1, <<>>) ELSE None
    ELSE None

read_points(msg) ==
    [i \in 1..Len(msg.points) |->
        <<AsF64(msg.points[i].x), AsF64(msg.points[i].y), AsF64(msg.points[i].z)>>]

-----------------------------------------------------------------------------
(* Transforms                                                               *)

RotMatrix(r) ==
    CASE r = "I"   -> <<<<1, 0, 0>>, <<0, 1, 0>>, <<0, 0, 1>>>>
      [] r = "Z90" -> <<<<0, -1, 0>>, <<1, 0, 0>>, <<0, 0, 1>>>>
      [] r = "X90" -> <<<<1, 0, 0>>, <<0, 0, -1>>, <<0, 1, 0>>>>

\* crate::transformation::ros_transform_to_isometry
ros_transform_to_isometry(t) == [R |-> RotMatrix(t.rotation), t |-> t.translation]

Dot(a, b) == a[1] * b[1] + a[2] * b[2] + a[3] * b[3]

\* nalgebra Isometry3::transform_point
transform_point(iso, pt) ==
    <<Dot(iso.R[1], pt) + iso.t[1], Dot(iso.R[2], pt) + iso.t[2],
      Dot(iso.R[3], pt) + iso.t[3]>>

-----------------------------------------------------------------------------
(* PolygonData                                                              *)

\* (mutant) the segment is built with the canvas default color
LineDefaultColor(x1, y1, x2, y2, color) ==
    [x1 |-> x1, y1 |-> y1, x2 |-> x2, y2 |-> y2, color |-> "reset"]

Line(x1, y1, x2, y2, color) ==
    [x1 |-> x1, y1 |-> y1, x2 |-> x2, y2 |-> y2, color |-> color]

\* (mutant) the cache starts as an empty vector instead of None
NewPolygonDataEmptyCache(color, static_frame) ==
    [polygon_stamped_msg |-> None,
     lines_in_static_frame |-> Some(<<>>),
     _tf_listener |-> "tf",
     _static_frame |-> static_frame,
     _color |-> color]

NewPolygonData(color, static_frame) ==
    [polygon_stamped_msg |-> None,
     lines_in_static_frame |-> None,
     _tf_listener |-> "tf",
     _static_frame |-> static_frame,
     _color |-> color]

\* (mutant) the loop also joins the last point back to the first
push_lines_closed(pts, i, previous_point, lines, polygon_transform, color) ==
    LET T(k) == transform_point(polygon_transform, pts[k])
        open == [k \in 1..(Len(pts) - 1) |->
                    [x1 |-> T(k)[1], y1 |-> T(k)[2],
                     x2 |-> T(k + 1)[1], y2 |-> T(k + 1)[2], color |-> color]]
    IN  IF Len(pts) < 2 THEN <<>>
        ELSE Append(open, [x1 |-> T(Len(pts))[1], y1 |-> T(Len(pts))[2],
                           x2 |-> T(1)[1], y2 |-> T(1)[2], color |-> color])

\* the loop of lines 74-87
RECURSIVE push_lines(_, _, _, _, _, _)
push_lines(pts, i, previous_point, lines, polygon_transform, color) ==
    IF i > Len(pts) THEN lines
    ELSE LET point_in_static_frame == transform_point(polygon_transform, pts[i]) IN
         push_lines(pts, i + 1, Some(point_in_static_frame),
            IF previous_point.tag = "Some"
            THEN Append(lines, Line(previous_point.v[1], previous_point.v[2],
                                    point_in_static_frame[1], point_in_static_frame[2],
                                    color))
            ELSE lines,
            polygon_transform, color)

\* (mutant) update() keeps the previous cache until a new one is computed
update_keep(d) == d

\* (mutant) update() consumes the message along with the cache
update_take(d) ==
    [d EXCEPT !.lines_in_static_frame = None, !.polygon_stamped_msg = None]

\* update(), line 62
update_clear(d) == [d EXCEPT !.lines_in_static_frame = None]

\* (mutant) target frame and source frame change places
lookup_args_swapped(d) ==
    <<d.polygon_stamped_msg.v.header.frame_id, d._static_frame,
      d.polygon_stamped_msg.v.header.stamp>>

\* update(), lines 64-68: the arguments handed to lookup_transform
lookup_args(d) ==
    <<d._static_frame, d.polygon_stamped_msg.v.header.frame_id,
      d.polygon_stamped_msg.v.header.stamp>>

\* (mutant) the points are joined as they are, the transform is not applied
update_match_untransformed(d, transform) ==
    IF transform.tag = "Ok"
    THEN [d EXCEPT !.lines_in_static_frame =
            Some(push_lines(read_points(d.polygon_stamped_msg.v.polygon), 1, None, <<>>,
                            [R |-> RotMatrix("I"), t |-> <<0, 0, 0>>], d._color))]
    ELSE d

\* (mutant) a failed lookup stores an empty vector instead of leaving None
update_match_err_empty(d, transform) ==
    IF transform.tag = "Ok"
    THEN [d EXCEPT !.lines_in_static_frame =
            Some(push_lines(read_points(d.polygon_stamped_msg.v.polygon), 1, None, <<>>,
                            ros_transform_to_isometry(transform.v.transform), d._color))]
    ELSE [d EXCEPT !.lines_in_static_frame = Some(<<>>)]

\* (mutant) the transformed points are written back into the message
update_match_in_place(d, transform) ==
    IF transform.tag = "Ok"
    THEN LET iso == ros_transform_to_isometry(transform.v.transform)
             pts == read_points(d.polygon_stamped_msg.v.polygon)
             moved == [i \in 1..Len(pts) |->
                        LET q == transform_point(iso, pts[i])
                        IN  [x |-> q[1], y |-> q[2], z |-> q[3]]]
         IN  [d EXCEPT !.lines_in_static_frame =
                        Some(push_lines(pts, 1, None, <<>>, iso, d._color)),
                      !.polygon_stamped_msg.v.polygon.points = moved]
    ELSE d

\* update(), lines 70-92: the match on the answer of lookup_transform
update_match(d, transform) ==
    IF transform.tag = "Ok"
    THEN [d EXCEPT !.lines_in_static_frame =
            Some(push_lines(read_points(d.polygon_stamped_msg.v.polygon), 1, None, <<>>,
                            ros_transform_to_isometry(transform.v.transform), d._color))]
    ELSE d

PolygonData_get_lines(d) ==
    IF d.lines_in_static_frame.tag = "Some" THEN d.lines_in_static_frame.v ELSE <<>>

-----------------------------------------------------------------------------
(* std::sync::RwLock                                                        *)

NewLock == [writer |-> "none", readers |-> {}, poisoned |-> FALSE]

\* (mutants) a lock that lets a writer, or a reader, in beside a writer
CanWriteBesideWriter(l) == l.readers = {}
CanReadBesideWriter(l) == TRUE

\* write() returns once nobody holds the lock, read() once no writer does
CanWrite(l) == l.writer = "none" /\ l.readers = {}
CanRead(l) == l.writer = "none"

\* (mutant) the PoisonError is ignored and the guard inside it used
poison_ignored(l) == FALSE

\* what unwrap() panics on: the PoisonError of a poisoned lock
is_poisoned(l) == l.poisoned

\* (mutant) the write guard is leaked: the lock stays held for good
Leaked(l) == l

\* dropping the write guard, normally and while the holder unwinds from a panic
Unlocked(l) == [l EXCEPT !.writer = "none"]
Poisoned(l) == [l EXCEPT !.writer = "none", !.poisoned = TRUE]

-----------------------------------------------------------------------------
(* ParameterPolygon::new, PolygonListener::new                              *)

\* (mutant) the header is stamped with the clock reading at construction
TimeNow == now

\* rosrust::Time::new(): the zero time, not the clock
TimeNew == 0

\* ParameterPolygon::new: the PolygonData it returns, or Panic
ParameterPolygon_new(cfg, p) ==
    LET d == NewPolygonData(cfg.color, StaticFrame)
        polygon == get_polygon_from_ros_param(p)
    IN  IF polygon = Panic THEN Panic
        ELSE IF polygon.tag = "Some"
        THEN [d EXCEPT !.polygon_stamped_msg =
                Some([header |-> [seq |-> 0, stamp |-> TimeNew, frame_id |-> cfg.frame],
                      polygon |-> polygon.v])]
        ELSE d

NoData == [tag |-> "NoData"]

ParameterPolygonNew ==
    /\ built["param"] = "no"
    /\ LET d == ParameterPolygon_new(config["param"], param) IN
       IF d = Panic
       THEN /\ built' = [built EXCEPT !["param"] = "panicked"]
            /\ UNCHANGED <<data, committed>>
       ELSE /\ built' = [built EXCEPT !["param"] = "ok"]
            /\ data' = [data EXCEPT !["param"] = d]
            /\ committed' = [committed EXCEPT !["param"] = d]
    /\ UNCHANGED <<delivered, param, config, lock, pc, ret, calls, updates, tfRes, lastRes,
                   now, queue, lookups, prevRes>>

\* PolygonListener::new: rosrust::subscribe(..).unwrap() panics when the
\* subscription cannot be set up
PolygonListenerNew ==
    /\ built["topic"] = "no"
    /\ \E subscribed \in BOOLEAN :
        IF subscribed
        THEN /\ built' = [built EXCEPT !["topic"] = "ok"]
             /\ data' = [data EXCEPT
                    !["topic"] = NewPolygonData(config["topic"].color, StaticFrame)]
             /\ committed' = [committed EXCEPT
                    !["topic"] = NewPolygonData(config["topic"].color, StaticFrame)]
        ELSE /\ built' = [built EXCEPT !["topic"] = "panicked"]
             /\ UNCHANGED <<data, committed>>
    /\ UNCHANGED <<delivered, param, config, lock, pc, ret, calls, updates, tfRes, lastRes,
                   now, queue, lookups, prevRes>>

-----------------------------------------------------------------------------
(* PolygonData::update, run by the thread that holds the write guard        *)

\* (mutant) once there is a listener, every update() works on its PolygonData
PolyOfShared(t) ==
    IF t \in Callbacks \/ built["topic"] = "ok" THEN "topic" ELSE "param"

\* the polygon a thread's update() works on: a callback thread serves the
\* topic polygon, a render thread inside update() is in ParameterPolygon::get_lines
PolyOf(t) == IF t \in Callbacks THEN "topic" ELSE "param"

\* entering an operation: nothing looked up, nothing computed yet
Enter(t, label) ==
    /\ pc' = [pc EXCEPT ![t] = label]
    /\ ret' = [ret EXCEPT ![t] = None]
    /\ calls' = [calls EXCEPT ![t] = 0]
    /\ updates' = [updates EXCEPT ![t] = 0]
    /\ tfRes' = [tfRes EXCEPT ![t] = None]
    /\ lookups' = [lookups EXCEPT ![t] = <<>>]

\* unwrap() of a poisoned lock: the thread panics, nothing else changes
PanicOnPoison(t) ==
    /\ pc' = [pc EXCEPT ![t] = "panicked"]
    /\ UNCHANGED <<ret, calls, updates, tfRes, lookups>>

\* line 62
UpdateClear(t) ==
    /\ pc[t] = "locked"
    /\ data' = [data EXCEPT ![PolyOf(t)] = update_clear(@)]
    /\ updates' = [updates EXCEPT ![t] = @ + 1]
    /\ pc' = [pc EXCEPT ![t] = "cleared"]
    /\ UNCHANGED <<delivered, param, config, built, lock, ret, calls, tfRes, lastRes, committed,
                   now, queue, lookups, prevRes>>

\* lines 63-93: no message, or lookup_transform answers and the match runs
UpdateLookup(t) ==
    /\ pc[t] = "cleared"
    /\ IF data[PolyOf(t)].polygon_stamped_msg.tag = "Some"
       THEN \E transform \in LookupResults :
            /\ data' = [data EXCEPT ![PolyOf(t)] = update_match(@, transform)]
            /\ calls' = [calls EXCEPT ![t] = @ + 1]
            /\ lookups' = [lookups EXCEPT ![t] = Append(@, lookup_args(data[PolyOf(t)]))]
            /\ tfRes' = [tfRes EXCEPT ![t] = Some(transform)]
            /\ lastRes' = [lastRes EXCEPT ![PolyOf(t)] = Some(transform)]
       ELSE /\ lastRes' = [lastRes EXCEPT ![PolyOf(t)] = None]
            /\ UNCHANGED <<data, calls, tfRes, lookups>>
    /\ pc' = [pc EXCEPT ![t] = "updated"]
    /\ UNCHANGED <<delivered, param, config, built, lock, ret, updates, committed,
                   now, queue, prevRes>>

\* lines 64-68: lookup_transform panics; the unwinding thread drops the write
\* guard, which poisons the lock
LookupPanic(t) ==
    /\ pc[t] = "cleared"
    /\ data[PolyOf(t)].polygon_stamped_msg.tag = "Some"
    /\ calls' = [calls EXCEPT ![t] = @ + 1]
    /\ lookups' = [lookups EXCEPT ![t] = Append(@, lookup_args(data[PolyOf(t)]))]
    /\ lock' = [lock EXCEPT ![PolyOf(t)] = Poisoned(@)]
    /\ committed' = [committed EXCEPT ![PolyOf(t)] = data[PolyOf(t)]]
    /\ prevRes' = [prevRes EXCEPT ![PolyOf(t)] = lastRes[PolyOf(t)]]
    /\ pc' = [pc EXCEPT ![t] = "panicked"]
    /\ UNCHANGED <<delivered, param, config, built, data, ret, updates, tfRes, lastRes,
                   now, queue>>

-----------------------------------------------------------------------------
(* ParameterPolygon::get_lines, lines 134-138                               *)

\* line 135
PullLock(t) ==
    /\ pc[t] = "idle"
    /\ built["param"] = "ok"
    /\ CanWrite(lock["param"])
    /\ IF is_poisoned(lock["param"])
       THEN /\ PanicOnPoison(t)
            /\ UNCHANGED lock
       ELSE /\ lock' = [lock EXCEPT !["param"].writer = t]
            /\ Enter(t, "locked")
    /\ UNCHANGED <<delivered, param, config, built, data, lastRes, committed,
                   now, queue, prevRes>>

\* line 137: the value is computed while the guard is still held
PullRead(t) ==
    /\ pc[t] = "updated"
    /\ t \in Renderers
    /\ ret' = [ret EXCEPT ![t] = Some(PolygonData_get_lines(data["param"]))]
    /\ pc' = [pc EXCEPT ![t] = "done"]
    /\ UNCHANGED <<delivered, param, config, built, data, lock, calls, updates, tfRes, lastRes,
                   committed, now, queue, lookups, prevRes>>

\* line 138: the guard is dropped and the value handed to the caller
PullReturn(t) ==
    /\ pc[t] = "done"
    /\ lock' = [lock EXCEPT !["param"] = Unlocked(@)]
    /\ committed' = [committed EXCEPT !["param"] = data["param"]]
    /\ prevRes' = [prevRes EXCEPT !["param"] = lastRes["param"]]
    /\ Enter(t, "idle")
    /\ UNCHANGED <<delivered, param, config, built, data, lastRes,
                   now, queue>>

-----------------------------------------------------------------------------
(* PolygonListener: the subscriber callback, lines 159-163                  *)

\* (mutant) the callback keeps the first message it ever stored
handler_store_first(d, msg) ==
    IF d.polygon_stamped_msg.tag = "Some" THEN d
    ELSE [d EXCEPT !.polygon_stamped_msg = Some(msg)]

\* line 161
handler_store(d, msg) == [d EXCEPT !.polygon_stamped_msg = Some(msg)]

\* (mutant) the callback takes a shared guard instead of the exclusive one
HandlerLockShared(t, msg) ==
    /\ pc[t] = "idle"
    /\ built["topic"] = "ok"
    /\ CanRead(lock["topic"])
    /\ IF is_poisoned(lock["topic"])
       THEN /\ PanicOnPoison(t)
            /\ UNCHANGED <<lock, data, delivered>>
       ELSE /\ lock' = [lock EXCEPT !["topic"].readers = @ \cup {t}]
            /\ data' = [data EXCEPT !["topic"] = handler_store(@, msg)]
            /\ delivered' = Some(msg)
            /\ Enter(t, "locked")
    /\ UNCHANGED <<param, config, built, lastRes, committed,
                   now, queue, prevRes>>

\* lines 160-161: a message is delivered, the callback takes the write guard
\* and stores the message
HandlerLock(t, msg) ==
    /\ pc[t] = "idle"
    /\ built["topic"] = "ok"
    /\ CanWrite(lock["topic"])
    /\ IF is_poisoned(lock["topic"])
       THEN /\ PanicOnPoison(t)
            /\ UNCHANGED <<lock, data, delivered>>
       ELSE /\ lock' = [lock EXCEPT !["topic"].writer = t]
            /\ data' = [data EXCEPT !["topic"] = handler_store(@, msg)]
            /\ delivered' = Some(msg)
            /\ Enter(t, "locked")
    /\ UNCHANGED <<param, config, built, lastRes, committed,
                   now, queue, prevRes>>

\* line 163: the closure ends, the guard is dropped
HandlerReturn(t) ==
    /\ pc[t] = "updated"
    /\ t \in Callbacks
    /\ lock' = [lock EXCEPT !["topic"] = Unlocked(@)]
    /\ committed' = [committed EXCEPT !["topic"] = data["topic"]]
    /\ prevRes' = [prevRes EXCEPT !["topic"] = lastRes["topic"]]
    /\ Enter(t, "idle")
    /\ UNCHANGED <<delivered, param, config, built, data, lastRes,
                   now, queue>>

-----------------------------------------------------------------------------
(* PolygonListener::get_lines, lines 173-175                                *)

ListenerLock(t) ==
    /\ pc[t] = "idle"
    /\ built["topic"] = "ok"
    /\ CanRead(lock["topic"])
    /\ IF is_poisoned(lock["topic"])
       THEN /\ PanicOnPoison(t)
            /\ UNCHANGED lock
       ELSE /\ lock' = [lock EXCEPT !["topic"].readers = @ \cup {t}]
            /\ Enter(t, "r_locked")
    /\ UNCHANGED <<delivered, param, config, built, data, lastRes, committed,
                   now, queue, prevRes>>

\* (mutant) get_lines recomputes before it reads, as ParameterPolygon's does
ListenerReadRecompute(t) ==
    /\ pc[t] = "r_locked"
    /\ \E transform \in LookupResults :
        /\ data' = [data EXCEPT !["topic"] =
                IF @.polygon_stamped_msg.tag = "Some"
                THEN update_match(update_clear(@), transform) ELSE update_clear(@)]
        /\ ret' = [ret EXCEPT ![t] = Some(PolygonData_get_lines(data'["topic"]))]
    /\ pc' = [pc EXCEPT ![t] = "r_done"]
    /\ UNCHANGED <<delivered, param, config, built, lock, calls, updates, tfRes, lastRes,
                   committed, now, queue, lookups, prevRes>>

ListenerRead(t) ==
    /\ pc[t] = "r_locked"
    /\ ret' = [ret EXCEPT ![t] = Some(PolygonData_get_lines(data["topic"]))]
    /\ pc' = [pc EXCEPT ![t] = "r_done"]
    /\ UNCHANGED <<delivered, param, config, built, data, lock, calls, updates, tfRes, lastRes,
                   committed, now, queue, lookups, prevRes>>

\* the temporary read guard is dropped at the end of the statement
ListenerReturn(t) ==
    /\ pc[t] = "r_done"
    /\ lock' = [lock EXCEPT !["topic"].readers = @ \ {t}]
    /\ Enter(t, "idle")
    /\ UNCHANGED <<delivered, param, config, built, data, lastRes, committed,
                   now, queue, prevRes>>

-----------------------------------------------------------------------------
(* Specifications                                                           *)

Frames == {"base", "odom"}
Clocks == {0, 5}    \* clock readings: not yet running, running

InitCommon ==
    /\ built = [p \in Polys |-> "no"]
    /\ data = [p \in Polys |-> NoData]
    /\ committed = [p \in Polys |-> NoData]
    /\ lock = [p \in Polys |-> NewLock]
    /\ pc = [t \in Threads |-> "idle"]
    /\ ret = [t \in Threads |-> None]
    /\ calls = [t \in Threads |-> 0]
    /\ updates = [t \in Threads |-> 0]
    /\ tfRes = [t \in Threads |-> None]
    /\ lastRes = [p \in Polys |-> None]
    /\ delivered = None
    /\ lookups = [t \in Threads |-> <<>>]
    /\ prevRes = [p \in Polys |-> None]
    /\ queue = [p \in Polys |-> <<>>]

Configs ==
    {[param |-> [parameter |-> "footprint", frame |-> f, color |-> c],
      topic |-> [topic |-> "polygon", color |-> c]] : f \in Frames, c \in Colors}

\* one ParameterPolygon, polled by the render threads
InitPull ==
    /\ param \in ParamValues
    /\ config \in Configs
    /\ now \in Clocks
    /\ InitCommon

NextPull ==
    \/ ParameterPolygonNew
    \/ \E t \in Renderers : PullLock(t)
    \/ \E t \in Renderers : UpdateClear(t)
    \/ \E t \in Renderers : UpdateLookup(t)
    \/ \E t \in Renderers : LookupPanic(t)
    \/ \E t \in Renderers : PullRead(t)
    \/ \E t \in Renderers : PullReturn(t)

SpecPull == InitPull /\ [][NextPull]_vars

\* one PolygonListener: the callback threads and the render threads
InitPush ==
    /\ param = Missing
    /\ config \in {c \in Configs : c["param"].frame = "base"}
    /\ now \in Clocks \ {0}
    /\ InitCommon

NextPush ==
    \/ PolygonListenerNew
    \/ \E t \in Callbacks, msg \in Messages : HandlerLock(t, msg)
    \/ \E t \in Callbacks : UpdateClear(t)
    \/ \E t \in Callbacks : UpdateLookup(t)
    \/ \E t \in Callbacks : LookupPanic(t)
    \/ \E t \in Callbacks : HandlerReturn(t)
    \/ \E t \in Renderers : ListenerLock(t)
    \/ \E t \in Renderers : ListenerRead(t)
    \/ \E t \in Renderers : ListenerReturn(t)

SpecPush == InitPush /\ [][NextPush]_vars

\* both polygons in one process, on a few inputs: a two-point footprint on the
\* parameter server, a broken one or none, two messages on the topic
FewParams == {[kind |-> "list", v |-> <<<<1, 1>>, <<F32Exact + 1, 1>>>>],
              [kind |-> "list", v |-> <<<<1>>>>],
              Missing}
FewMessages ==
    {[header |-> [seq |-> 0, stamp |-> 1, frame_id |-> "base"],
      polygon |-> [points |-> <<Point32(0, 0, 0), Point32(1, 2, 3)>>]],
     [header |-> [seq |-> 0, stamp |-> 2, frame_id |-> "odom"],
      polygon |-> [points |-> <<Point32(1, 2, 3)>>]]}

Init ==
    /\ param \in FewParams
    /\ config \in {c \in Configs : c["param"].frame = "base" /\ c["param"].color = "red"}
    /\ now \in Clocks \ {0}
    /\ InitCommon

Next ==
    \/ ParameterPolygonNew
    \/ PolygonListenerNew
    \/ \E t \in Renderers : PullLock(t)
    \/ \E t \in Threads : UpdateClear(t)
    \/ \E t \in Threads : UpdateLookup(t)
    \/ \E t \in Threads : LookupPanic(t)
    \/ \E t \in Renderers : PullRead(t)
    \/ \E t \in Renderers : PullReturn(t)
    \/ \E t \in Callbacks, msg \in FewMessages : HandlerLock(t, msg)
    \/ \E t \in Callbacks : HandlerReturn(t)
    \/ \E t \in Renderers : ListenerLock(t)
    \/ \E t \in Renderers : ListenerRead(t)
    \/ \E t \in Renderers : ListenerReturn(t)

Spec == Init /\ [][Next]_vars

-----------------------------------------------------------------------------
(* What the claims speak of                                                 *)

\* the rigid transform a successful lookup stands for, applied to a message point
T(res, pt) ==
    transform_point(ros_transform_to_isometry(res.v.transform), <<pt.x, pt.y, pt.z>>)

\* one segment per adjacent pair of transformed points, in input order
Segments(points, res, color) ==
    IF Len(points) < 2 THEN <<>>
    ELSE [i \in 1..(Len(points) - 1) |->
            [x1 |-> T(res, points[i])[1], y1 |-> T(res, points[i])[2],
             x2 |-> T(res, points[i + 1])[1], y2 |-> T(res, points[i + 1])[2],
             color |-> color]]

\* what get_lines has to give for message option m when the lookup answered r
\* (r is None when no lookup was made)
Geometry(m, r, color) ==
    IF m.tag = "Some" /\ r.tag = "Some" /\ r.v.tag = "Ok"
    THEN Segments(m.v.polygon.points, r.v, color)
    ELSE <<>>

\* threads holding the guard of polygon p
Writing(t, p) == pc[t] \in {"locked", "cleared", "updated", "done"} /\ PolyOf(t) = p
Reading(t) == pc[t] \in {"r_locked", "r_done"}

\* no update() of polygon p is under way or was cut short by a panic
Settled(p) ==
    /\ built[p] = "ok"
    /\ ~lock[p].poisoned
    /\ \A t \in Threads : Writing(t, p) => pc[t] \in {"updated", "done"}

\* the value a get_lines of polygon p is about to hand out, per thread
Returning(t, p) ==
    \/ p = "param" /\ pc[t] = "done"
    \/ p = "topic" /\ pc[t] = "r_done"

NPoints(p) ==
    IF data[p].polygon_stamped_msg.tag = "Some"
    THEN Len(data[p].polygon_stamped_msg.v.polygon.points) ELSE 0

Max(a, b) == IF a > b THEN a ELSE b

\* C1: for a stored message of N points whose latest update() had a successful
\* lookup T, get_lines gives exactly max(0, N-1) segments, segment i running
\* from T(point i) to T(point i+1), in input order; nothing closes the polygon.
C1_SegmentsOfMessage ==
    \A p \in Polys :
        (/\ Settled(p)
         /\ data[p].polygon_stamped_msg.tag = "Some"
         /\ lastRes[p].tag = "Some"
         /\ lastRes[p].v.tag = "Ok")
        => LET pts == data[p].polygon_stamped_msg.v.polygon.points
               lines == PolygonData_get_lines(data[p])
           IN  /\ Len(lines) = Max(0, Len(pts) - 1)
               /\ \A i \in 1..Len(lines) :
                    /\ <<lines[i].x1, lines[i].y1>>
                         = <<T(lastRes[p].v, pts[i])[1], T(lastRes[p].v, pts[i])[2]>>
                    /\ <<lines[i].x2, lines[i].y2>>
                         = <<T(lastRes[p].v, pts[i + 1])[1], T(lastRes[p].v, pts[i + 1])[2]>>
               /\ \A t \in Threads : Returning(t, p) => ret[t] = Some(lines)

\* three points under a rotating, translating transform: two segments handed out
C1_Witness ==
    /\ pc["r1"] = "r_done"
    /\ NPoints("topic") = 3
    /\ lastRes["topic"] = Some(Ok([transform |->
            [translation |-> <<1, 2, 0>>, rotation |-> "Z90"]]))
    /\ Len(ret["r1"].v) = 2
    /\ data["topic"].polygon_stamped_msg.v.polygon.points[1]
         # data["topic"].polygon_stamped_msg.v.polygon.points[3]

\* C2: after an update() whose lookup failed, get_lines gives the empty
\* sequence, whatever cache the polygon held before.
C2_EmptyAfterFailedLookup ==
    \A p \in Polys :
        (Settled(p) /\ lastRes[p] = Some(Err))
        => /\ PolygonData_get_lines(data[p]) = <<>>
           /\ data[p].lines_in_static_frame = None
           /\ \A t \in Threads : Returning(t, p) => ret[t] = Some(<<>>)

\* a failed lookup right after a call that left a segment in the cache
C2_Witness ==
    /\ pc["r1"] = "done"
    /\ tfRes["r1"] = Some(Err)
    /\ ret["r1"] = Some(<<>>)
    /\ committed["param"].lines_in_static_frame.tag = "Some"
    /\ Len(committed["param"].lines_in_static_frame.v) = 1

\* C3: once the callback has run for messages m1..mk, last_message is mk and
\* the cache holds segments of mk only (none when mk's lookup failed).
C3_OnlyLatestMessage ==
    (Settled("topic") /\ delivered.tag = "Some")
    => /\ data["topic"].polygon_stamped_msg = delivered
       /\ PolygonData_get_lines(data["topic"])
            = Geometry(delivered, lastRes["topic"], config["topic"].color)
       /\ \A t \in Renderers :
            pc[t] = "r_done"
            => ret[t] = Some(Geometry(delivered, lastRes["topic"], config["topic"].color))

\* a three-point message was handled, then a two-point one: one segment is left
C3_Witness ==
    /\ \E t \in Callbacks : pc[t] = "updated"
    /\ committed["topic"].polygon_stamped_msg.tag = "Some"
    /\ Len(committed["topic"].polygon_stamped_msg.v.polygon.points) = 3
    /\ Len(PolygonData_get_lines(committed["topic"])) = 2
    /\ NPoints("topic") = 2
    /\ Len(PolygonData_get_lines(data["topic"])) = 1
    /\ committed["topic"].polygon_stamped_msg.v.header.frame_id
         = data["topic"].polygon_stamped_msg.v.header.frame_id

\* C4: with no value under the configuration key the ParameterPolygon is
\* constructed with no message, and every get_lines gives the empty sequence
\* without a panic and without a lookup_transform call.
C4_MissingKey ==
    param \in {Missing, Unresolved}
    => /\ built["param"] # "panicked"
       /\ built["param"] = "ok"
            => /\ data["param"].polygon_stamped_msg = None
               /\ ~lock["param"].poisoned
               /\ \A t \in Renderers :
                    /\ pc[t] # "panicked"
                    /\ calls[t] = 0
                    /\ pc[t] = "done" => ret[t] = Some(<<>>)

C4_Witness ==
    /\ param = Missing
    /\ pc["r1"] = "done"
    /\ ret["r1"] = Some(<<>>)
    /\ updates["r1"] = 1

\* C5: with a malformed value under the key (one that does not decode, or a
\* list with an entry of fewer than two coordinates) construction completes
\* with no message and get_lines gives the empty sequence.
Malformed(p) ==
    \/ p.kind = "string"
    \/ p.kind = "list" /\ \E i \in 1..Len(p.v) : Len(p.v[i]) < 2

C5_MalformedValue ==
    Malformed(param)
    => /\ built["param"] # "panicked"
       /\ built["param"] = "ok"
            => /\ data["param"].polygon_stamped_msg = None
               /\ \A t \in Renderers : pc[t] = "done" => ret[t] = Some(<<>>)

\* C6: PolygonListener::get_lines is a pure read: no step of it calls
\* lookup_transform or changes the message or the cache, and what it hands out
\* is the cache as the latest callback invocation left it.
C6_ListenerGetLinesIsPure ==
    [][\A t \in Renderers :
        pc'[t] # pc[t]
        => /\ data' = data
           /\ lastRes' = lastRes
           /\ committed' = committed
           /\ calls'[t] = 0
           /\ updates'[t] = 0
           /\ pc'[t] = "r_done"
                => ret'[t] = Some(PolygonData_get_lines(committed["topic"]))]_vars

\* two get_lines calls with no callback in between hand out the same segments
C6_Witness ==
    /\ pc["r1"] = "r_done"
    /\ pc["r2"] = "r_done"
    /\ ret["r1"] = ret["r2"]
    /\ Len(ret["r1"].v) = 2
    /\ lastRes["topic"].v.tag = "Ok"

\* C7: every ParameterPolygon::get_lines runs update() exactly once while it
\* alone holds the lock, and hands out what that update() computed from the
\* answer lookup_transform gave during that call.
C7_PullRecomputesUnderLock ==
    /\ Cardinality({t \in Threads : Writing(t, "param")}) <= 1
    /\ \A t \in Renderers :
        /\ Writing(t, "param") => lock["param"].writer = t /\ lock["param"].readers = {}
        /\ pc[t] = "done"
            => /\ updates[t] = 1
               /\ ret[t] = Some(Geometry(data["param"].polygon_stamped_msg, tfRes[t],
                                         config["param"].color))

\* a call that computed a segment while the previous call had left none
C7_Witness ==
    /\ pc["r2"] = "done"
    /\ tfRes["r2"].tag = "Some"
    /\ tfRes["r2"].v.tag = "Ok"
    /\ Len(ret["r2"].v) = 1
    /\ committed["param"].lines_in_static_frame = None
    /\ pc["r1"] = "idle"

\* C8: every cached and every handed-out segment carries the color the polygon
\* was constructed with, and the polygon's color stays that color.
SegmentColors(lines) == {lines[i].color : i \in 1..Len(lines)}

C8_SegmentColor ==
    \A p \in Polys :
        built[p] = "ok"
        => /\ data[p]._color = config[p].color
           /\ SegmentColors(PolygonData_get_lines(data[p])) \subseteq {config[p].color}
           /\ \A t \in Threads :
                Returning(t, p) => SegmentColors(ret[t].v) \subseteq {config[p].color}

C8_Witness ==
    /\ config["topic"].color = "blue"
    /\ pc["r1"] = "r_done"
    /\ SegmentColors(ret["r1"].v) = {"blue"}
    /\ Len(data["topic"].lines_in_static_frame.v) = 2

\* C9: whatever the interleaving of callbacks and PolygonListener::get_lines
\* calls, a get_lines reads the state as a completed callback (or construction)
\* left it: no callback is inside its critical section, the cache is not the
\* cleared cache of an update under way, and it belongs to the stored message.
C9_ReadsSeeCompletedUpdates ==
    \A t \in Renderers :
        Reading(t)
        => /\ lock["topic"].writer = "none"
           /\ \A c \in Callbacks : ~Writing(c, "topic")
           /\ data["topic"] = committed["topic"]
           /\ PolygonData_get_lines(data["topic"])
                = Geometry(data["topic"].polygon_stamped_msg, lastRes["topic"],
                           config["topic"].color)
           /\ pc[t] = "r_done" => ret[t] = Some(PolygonData_get_lines(committed["topic"]))

\* after the callbacks handled a one-segment message, one reader holds its
\* value while the other shares the read guard
C9_Witness ==
    /\ pc["r2"] = "r_done"
    /\ pc["r1"] = "r_locked"
    /\ Len(ret["r2"].v) = 1
    /\ delivered.tag = "Some"
    /\ Len(delivered.v.polygon.points) = 2

\* C10: once a polygon's lock is poisoned, no later acquisition of it succeeds:
\* nobody holds it again, its state is never changed or read again, and a
\* thread that tries to take it panics.
Holds(t, p) == Writing(t, p) \/ (p = "topic" /\ Reading(t))

C10_PoisonIsFatal ==
    [][\A p \in Polys :
        lock[p].poisoned
        => /\ data'[p] = data[p]
           /\ lock'[p] = lock[p]
           /\ \A t \in Threads :
                /\ ~Holds(t, p)
                /\ ~Holds(t, p)'
                /\ pc'[t] # pc[t]
                    => \/ pc'[t] = "panicked"
                       \/ \E q \in Polys \ {p} : Holds(t, q) \/ Holds(t, q)']_vars

\* a callback panicked inside the lookup; the other callback and a render
\* thread then panicked on the poisoned lock, the other polygon still serves
C10_Witness ==
    /\ lock["topic"].poisoned
    /\ pc["cb1"] = "panicked"
    /\ pc["cb2"] = "panicked"
    /\ pc["r1"] = "panicked"
    /\ ~lock["param"].poisoned
    /\ pc["r2"] = "done"

\* C11: whenever nobody holds a polygon's lock exclusively, its cache is
\* absent or is exactly the segments of the current message under the
\* transform the latest update() looked up.
C11_CacheDerivedFromMessage ==
    \A p \in Polys :
        (built[p] = "ok" /\ lock[p].writer = "none")
        => \/ data[p].lines_in_static_frame = None
           \/ /\ data[p].polygon_stamped_msg.tag = "Some"
              /\ lastRes[p].tag = "Some"
              /\ lastRes[p].v.tag = "Ok"
              /\ data[p].lines_in_static_frame
                   = Some(Segments(data[p].polygon_stamped_msg.v.polygon.points,
                                   lastRes[p].v, config[p].color))

\* the lock is free and the cache holds two segments of a rotated message
C11_Witness ==
    /\ \A t \in Threads : pc[t] = "idle"
    /\ lock["topic"].writer = "none"
    /\ lastRes["topic"] = Some(Ok([transform |->
            [translation |-> <<0, 0, 0>>, rotation |-> "X90"]]))
    /\ data["topic"].lines_in_static_frame.tag = "Some"
    /\ Len(data["topic"].lines_in_static_frame.v) = 2

\* C12: a polygon with no message has no cache, and a PolygonListener that
\* has received nothing hands out the empty sequence.
C12_NoMessageNoCache ==
    /\ \A p \in Polys :
        (built[p] = "ok" /\ data[p].polygon_stamped_msg = None)
        => data[p].lines_in_static_frame = None
    /\ \A t \in Renderers :
        (pc[t] = "r_done" /\ delivered = None) => ret[t] = Some(<<>>)

\* before any message: one thread reads the listener, the other has run
\* update() on a ParameterPolygon that has no message either
C12_Witness ==
    /\ delivered = None
    /\ pc["r1"] = "r_done"
    /\ ret["r1"] = Some(<<>>)
    /\ param = Missing
    /\ pc["r2"] = "done"
    /\ updates["r2"] = 1

\* C13: the cache becomes present only at the end of an update() that found a
\* message and whose lookup succeeded; an update() with no message or with a
\* failed lookup ends with the cache absent; update() begins by clearing it;
\* no other step changes whether it is present.
Present(d) == d.lines_in_static_frame.tag = "Some"

C13_CacheStateMachine ==
    [][\A p \in Polys :
        (built[p] = "ok" /\ built'[p] = "ok")
        => LET starts == {t \in Threads :
                            PolyOf(t) = p /\ pc[t] = "locked" /\ pc'[t] = "cleared"}
               ends == {t \in Threads :
                            PolyOf(t) = p /\ pc[t] = "cleared" /\ pc'[t] = "updated"}
           IN  /\ starts # {} => ~Present(data'[p])
               /\ \A t \in ends :
                    Present(data'[p])
                        <=> /\ data[p].polygon_stamped_msg.tag = "Some"
                            /\ tfRes'[t].tag = "Some"
                            /\ tfRes'[t].v.tag = "Ok"
               /\ (starts = {} /\ ends = {}) => (Present(data'[p]) <=> Present(data[p]))]_vars

\* a failed lookup has emptied a cache that the previous callback had filled
C13_Witness ==
    /\ pc["cb1"] = "updated"
    /\ tfRes["cb1"] = Some(Err)
    /\ ~Present(data["topic"])
    /\ Present(committed["topic"])
    /\ Len(committed["topic"].lines_in_static_frame.v) = 1

\* C14: one update() calls lookup_transform once, with (static frame, frame
\* of the message, stamp of the message), when there is a message and never
\* when there is none; a call is made only inside update(), so a failed lookup
\* is tried again only by the next callback or the next
\* ParameterPolygon::get_lines, never by PolygonListener::get_lines.
ExpectedLookup(d) ==
    <<StaticFrame, d.polygon_stamped_msg.v.header.frame_id,
      d.polygon_stamped_msg.v.header.stamp>>

C14_OneLookupPerUpdate ==
    [][\A t \in Threads :
        /\ calls'[t] = Len(lookups'[t])
        /\ Len(lookups'[t]) <= updates'[t]
        /\ updates'[t] <= 1
        /\ Len(lookups'[t]) > Len(lookups[t])
            => /\ pc[t] = "cleared"
               /\ lookups[t] = <<>>
               /\ data[PolyOf(t)].polygon_stamped_msg.tag = "Some"
               /\ lookups'[t] = <<ExpectedLookup(data[PolyOf(t)])>>
        /\ (pc[t] = "cleared" /\ pc'[t] # "cleared")
            => IF data[PolyOf(t)].polygon_stamped_msg.tag = "Some"
               THEN lookups'[t] = <<ExpectedLookup(data[PolyOf(t)])>>
               ELSE lookups'[t] = <<>>
        /\ pc'[t] \in {"updated", "done"}
            => (tfRes'[t] = Some(Err) => Len(lookups'[t]) = 1)
        /\ pc'[t] \in {"idle", "locked", "cleared", "r_locked", "r_done"}
            => lookups'[t] = <<>>]_vars

\* a callback's one lookup has failed and a render thread reads the listener
\* without a lookup of its own, while the other render thread's update() of
\* the ParameterPolygon has made its one call, which failed too
C14_Witness ==
    /\ lastRes["topic"] = Some(Err)
    /\ prevRes["topic"] = Some(Err)
    /\ data["topic"].polygon_stamped_msg.tag = "Some"
    /\ pc["r1"] = "r_done"
    /\ ret["r1"] = Some(<<>>)
    /\ lookups["r1"] = <<>>
    /\ pc["r2"] = "done"
    /\ tfRes["r2"] = Some(Err)
    /\ lookups["r2"] = <<ExpectedLookup(data["param"])>>

\* C15: update() writes lines_in_static_frame and nothing else: the message,
\* the colour, the static frame and the tf listener handle are after update()
\* what they were before it, whether the lookup succeeded, failed, or there
\* was no message to look up.
SameButCache(d, e) ==
    /\ e.polygon_stamped_msg = d.polygon_stamped_msg
    /\ e._color = d._color
    /\ e._static_frame = d._static_frame
    /\ e._tf_listener = d._tf_listener

C15_UpdateWritesOnlyCache ==
    [][\A t \in Threads :
        /\ (pc[t] \in {"locked", "cleared"} /\ pc'[t] # pc[t])
            => SameButCache(data[PolyOf(t)], data'[PolyOf(t)])
        /\ (pc'[t] = "updated" /\ t \in Renderers)
            => SameButCache(committed'["param"], data'["param"])
        /\ (pc'[t] = "updated" /\ t \in Callbacks)
            => SameButCache(handler_store(committed'["topic"], delivered'.v),
                            data'["topic"])]_vars

\* after an update() that changed the cache: the lookup has answered with a
\* rotation, the previous call had failed
C15_Witness ==
    /\ pc["r1"] = "updated"
    /\ tfRes["r1"].tag = "Some"
    /\ tfRes["r1"].v.tag = "Ok"
    /\ committed["param"].lines_in_static_frame = None
    /\ prevRes["param"] = Some(Err)
    /\ data["param"].lines_in_static_frame.tag = "Some"
    /\ data["param"].polygon_stamped_msg = committed["param"].polygon_stamped_msg
    /\ pc["cb1"] = "updated"
    /\ tfRes["cb1"] = Some(Err)

\* C16: from the moment the callback stores the message until its update()
\* has ended it holds the write guard: no PolygonListener::get_lines holds a
\* read guard or can take one, and no other callback can start.  While the
\* callback is inside lookup_transform nothing but the end of that call moves
\* it on, and the lock stays as it is whatever the other threads do.
InHandler(c) == c \in Callbacks /\ pc[c] \in {"locked", "cleared", "updated"}

C16_LookupUnderExclusiveLock ==
    [][\A c \in Callbacks :
        /\ InHandler(c)
            => /\ lock["topic"].writer = c
               /\ lock["topic"].readers = {}
               /\ \A t \in Renderers :
                    /\ ~Reading(t)
                    /\ ~ENABLED ListenerLock(t)
                    /\ ~Reading(t)'
               /\ \A d \in Callbacks \ {c} :
                    /\ ~InHandler(d)
                    /\ \A msg \in Messages : ~ENABLED HandlerLock(d, msg)
                    /\ pc'[d] = pc[d]
        /\ (pc[c] = "cleared" /\ pc'[c] = "cleared")
            => (lock'["topic"] = lock["topic"] /\ data'["topic"] = data["topic"])
        /\ (pc[c] = "cleared" /\ pc'[c] # "cleared")
            => (calls'[c] = calls[c] + 1 /\ pc'[c] \in {"updated", "panicked"})]_vars

\* the callback is inside lookup_transform for a second message while the
\* cache of the first has been cleared; every other thread is outside
C16_Witness ==
    /\ pc["cb1"] = "cleared"
    /\ \A t \in Threads \ {"cb1"} : pc[t] = "idle"
    /\ committed["topic"].lines_in_static_frame.tag = "Some"
    /\ Len(committed["topic"].lines_in_static_frame.v) = 1
    /\ data["topic"].lines_in_static_frame = None
    /\ data["topic"].polygon_stamped_msg # committed["topic"].polygon_stamped_msg

\* C17: the two polygons are independent.  A step of an operation on one of
\* them leaves the message, the cache and the lock of the other as they were;
\* and a callback that holds the listener's lock, for however long, leaves
\* every step of ParameterPolygon::get_lines enabled (and the same the other
\* way round for a render thread holding the ParameterPolygon's lock).
OperatesOn(t) ==
    IF t \in Callbacks \/ Reading(t) \/ Reading(t)' THEN "topic" ELSE "param"

PullCanStep(t) ==
    /\ (pc[t] = "idle" /\ built["param"] = "ok" /\ lock["param"].writer = "none")
        => ENABLED PullLock(t)
    /\ pc[t] = "locked" => ENABLED UpdateClear(t)
    /\ pc[t] = "cleared" => ENABLED UpdateLookup(t)
    /\ pc[t] = "updated" => ENABLED PullRead(t)
    /\ pc[t] = "done" => ENABLED PullReturn(t)

HandlerCanStep(c) ==
    /\ (pc[c] = "idle" /\ built["topic"] = "ok" /\ lock["topic"].writer = "none"
            /\ lock["topic"].readers = {})
        => \A msg \in FewMessages : ENABLED HandlerLock(c, msg)
    /\ pc[c] = "locked" => ENABLED UpdateClear(c)
    /\ pc[c] = "cleared" => ENABLED UpdateLookup(c)
    /\ pc[c] = "updated" => ENABLED HandlerReturn(c)

C17_PolygonsIndependent ==
    [][/\ \A t \in Threads :
            pc'[t] # pc[t]
            => \A q \in Polys \ {OperatesOn(t)} :
                /\ data'[q] = data[q]
                /\ lock'[q] = lock[q]
                /\ committed'[q] = committed[q]
       /\ \A t \in Renderers : ~Reading(t) => PullCanStep(t)
       /\ \A c \in Callbacks : HandlerCanStep(c)]_vars

\* a callback waits inside lookup_transform with the listener's lock held
\* while a render thread has got the ParameterPolygon's one segment
C17_Witness ==
    /\ pc["cb1"] = "cleared"
    /\ lock["topic"].writer = "cb1"
    /\ pc["r1"] = "done"
    /\ lock["param"].writer = "r1"
    /\ ret["r1"].tag = "Some"
    /\ Len(ret["r1"].v) = 1

\* C18 as stated: with a value under the key, the message ParameterPolygon::new
\* builds carries the configured frame, the time of construction as its stamp
\* and the parsed points in order with z = 0; it is never replaced, so every
\* get_lines looks up with (static frame, configured frame, construction time).
ParsedPoints(v) ==
    [i \in 1..Len(v) |-> Point32(AsF32(v[i][1]), AsF32(v[i][2]), 0)]

BoundaryMessage(stamp) ==
    [header |-> [seq |-> 0, stamp |-> stamp, frame_id |-> config["param"].frame],
     polygon |-> [points |-> ParsedPoints(param.v)]]

PullMessageIs(stamp) ==
    (param.kind = "list" /\ built["param"] = "ok")
    => /\ data["param"].polygon_stamped_msg = Some(BoundaryMessage(stamp))
       /\ \A t \in Renderers :
            lookups[t] # <<>>
            => lookups[t] = <<<<StaticFrame, config["param"].frame, stamp>>>>

C18_StampIsConstructionTime == PullMessageIs(now)

\* C18 amended: the stamp is the zero time that rosrust::Time::new() gives,
\* whatever the clock reads at construction; frame, points and the constancy
\* of the message and of the lookup arguments are as stated.
C18_StampIsZeroTime == PullMessageIs(0)

\* the clock is running at construction; a second get_lines has looked up the
\* two-point message with the zero stamp again
C18_Witness ==
    /\ now # 0
    /\ built["param"] = "ok"
    /\ param.kind = "list"
    /\ Len(param.v) = 2
    /\ param.v[1][1] = F32Exact + 1
    /\ config["param"].frame = "odom"
    /\ prevRes["param"] # None
    /\ pc["r1"] = "done"
    /\ lookups["r1"] = <<<<StaticFrame, "odom", 0>>>>
    /\ data["param"].polygon_stamped_msg.v.polygon.points[1].x = F32Exact

\* C19: update() is idempotent for an unchanged lookup answer: running it
\* again on the state it left, with the same answer, gives the same state; so
\* a ParameterPolygon::get_lines whose lookup answers as the previous call's
\* did hands out the same lines as that call and leaves the same state.
update(d, transform) ==
    IF d.polygon_stamped_msg.tag = "Some"
    THEN update_match(update_clear(d), transform)
    ELSE update_clear(d)

C19_UpdateIdempotent ==
    built["param"] = "ok"
    => /\ \A transform \in LookupResults :
            update(update(data["param"], transform), transform)
                = update(data["param"], transform)
       /\ \A t \in Renderers :
            (pc[t] = "done" /\ tfRes[t] = prevRes["param"])
            => /\ data["param"] = committed["param"]
               /\ ret[t] = Some(PolygonData_get_lines(committed["param"]))

\* two consecutive get_lines whose lookups gave the same rotation and
\* translation: the second hands out the one segment the first left
C19_Witness ==
    /\ pc["r1"] = "done"
    /\ tfRes["r1"] = prevRes["param"]
    /\ tfRes["r1"] = Some(Ok([transform |->
            [translation |-> <<1, 2, 0>>, rotation |-> "Z90"]]))
    /\ committed["param"].lines_in_static_frame.tag = "Some"
    /\ Len(committed["param"].lines_in_static_frame.v) = 1
    /\ ret["r1"] = committed["param"].lines_in_static_frame

-----------------------------------------------------------------------------
(* Progress: calls that wait for the lock before they take it               *)

\* a render thread calls ParameterPolygon::get_lines and waits on write()
PullCall(t) ==
    /\ pc[t] = "idle"
    /\ built["param"] = "ok"
    /\ queue' = [queue EXCEPT !["param"] = Append(@, t)]
    /\ pc' = [pc EXCEPT ![t] = "w_pull"]
    /\ UNCHANGED <<delivered, param, config, built, data, lock, ret, calls, updates, tfRes,
                   lastRes, committed, now, lookups, prevRes>>

\* line 135: write() hands the guard to the waiting thread
PullAcquire(t) ==
    /\ pc[t] = "w_pull"
    /\ queue["param"] # <<>>
    /\ Head(queue["param"]) = t
    /\ queue' = [queue EXCEPT !["param"] = Tail(@)]
    /\ CanWrite(lock["param"])
    /\ IF is_poisoned(lock["param"])
       THEN /\ PanicOnPoison(t)
            /\ UNCHANGED lock
       ELSE /\ lock' = [lock EXCEPT !["param"].writer = t]
            /\ Enter(t, "locked")
    /\ UNCHANGED <<delivered, param, config, built, data, lastRes, committed,
                   now, prevRes>>

\* the transport runs the callback, which waits on write()
HandlerCall(t) ==
    /\ pc[t] = "idle"
    /\ built["topic"] = "ok"
    /\ queue' = [queue EXCEPT !["topic"] = Append(@, t)]
    /\ pc' = [pc EXCEPT ![t] = "w_handle"]
    /\ UNCHANGED <<delivered, param, config, built, data, lock, ret, calls, updates, tfRes,
                   lastRes, committed, now, lookups, prevRes>>

\* lines 160-161: write() hands the guard over, the message is stored
HandlerAcquire(t, msg) ==
    /\ pc[t] = "w_handle"
    /\ queue["topic"] # <<>>
    /\ Head(queue["topic"]) = t
    /\ queue' = [queue EXCEPT !["topic"] = Tail(@)]
    /\ CanWrite(lock["topic"])
    /\ IF is_poisoned(lock["topic"])
       THEN /\ PanicOnPoison(t)
            /\ UNCHANGED <<lock, data, delivered>>
       ELSE /\ lock' = [lock EXCEPT !["topic"].writer = t]
            /\ data' = [data EXCEPT !["topic"] = handler_store(@, msg)]
            /\ delivered' = Some(msg)
            /\ Enter(t, "locked")
    /\ UNCHANGED <<param, config, built, lastRes, committed,
                   now, prevRes>>

\* a render thread calls PolygonListener::get_lines and waits on read()
ListenerCall(t) ==
    /\ pc[t] = "idle"
    /\ built["topic"] = "ok"
    /\ queue' = [queue EXCEPT !["topic"] = Append(@, t)]
    /\ pc' = [pc EXCEPT ![t] = "w_read"]
    /\ UNCHANGED <<delivered, param, config, built, data, lock, ret, calls, updates, tfRes,
                   lastRes, committed, now, lookups, prevRes>>

\* line 174: read() hands a shared guard to the waiting thread
ListenerAcquire(t) ==
    /\ pc[t] = "w_read"
    /\ queue["topic"] # <<>>
    /\ Head(queue["topic"]) = t
    /\ queue' = [queue EXCEPT !["topic"] = Tail(@)]
    /\ CanRead(lock["topic"])
    /\ IF is_poisoned(lock["topic"])
       THEN /\ PanicOnPoison(t)
            /\ UNCHANGED lock
       ELSE /\ lock' = [lock EXCEPT !["topic"].readers = @ \cup {t}]
            /\ Enter(t, "r_locked")
    /\ UNCHANGED <<delivered, param, config, built, data, lastRes, committed,
                   now, prevRes>>

LiveMessages ==
    {[header |-> [seq |-> 0, stamp |-> 1, frame_id |-> "base"],
      polygon |-> [points |-> <<Point32(0, 0, 0), Point32(1, 2, 3)>>]]}

\* one callback thread: it contends for the listener's lock with both render
\* threads, which in turn contend with each other for the ParameterPolygon's
LiveCallbacks == {"cb1"}
LiveThreads == Renderers \cup LiveCallbacks

InitLive ==
    /\ param \in FewParams
    /\ config \in {c \in Configs : c["param"].frame = "base" /\ c["param"].color = "red"}
    /\ now \in Clocks \ {0}
    /\ InitCommon

\* every lookup_transform returns: LookupPanic is left out, so no lock is
\* ever poisoned and no thread panics
NextLive ==
    \/ ParameterPolygonNew
    \/ PolygonListenerNew
    \/ \E t \in Renderers : PullCall(t)
    \/ \E t \in Renderers : PullAcquire(t)
    \/ \E t \in LiveThreads : UpdateClear(t)
    \/ \E t \in LiveThreads : UpdateLookup(t)
    \/ \E t \in Renderers : PullRead(t)
    \/ \E t \in Renderers : PullReturn(t)
    \/ \E t \in LiveCallbacks : HandlerCall(t)
    \/ \E t \in LiveCallbacks, msg \in LiveMessages : HandlerAcquire(t, msg)
    \/ \E t \in LiveCallbacks : HandlerReturn(t)
    \/ \E t \in Renderers : ListenerCall(t)
    \/ \E t \in Renderers : ListenerAcquire(t)
    \/ \E t \in Renderers : ListenerRead(t)
    \/ \E t \in Renderers : ListenerReturn(t)

\* a thread that is inside an operation keeps running, and the lock is handed
\* to the waiting threads in the order they arrived (fair lock scheduling)
Fairness ==
    /\ \A t \in LiveThreads : WF_vars(UpdateClear(t))
    /\ \A t \in LiveThreads : WF_vars(UpdateLookup(t))
    /\ \A t \in Renderers : WF_vars(PullRead(t))
    /\ \A t \in Renderers : WF_vars(PullReturn(t))
    /\ \A t \in LiveCallbacks : WF_vars(HandlerReturn(t))
    /\ \A t \in Renderers : WF_vars(ListenerRead(t))
    /\ \A t \in Renderers : WF_vars(ListenerReturn(t))
    /\ \A t \in Renderers : WF_vars(PullAcquire(t))
    /\ \A t \in LiveCallbacks : WF_vars(\E msg \in LiveMessages : HandlerAcquire(t, msg))
    /\ \A t \in Renderers : WF_vars(ListenerAcquire(t))

SpecLive == InitLive /\ [][NextLive]_vars /\ Fairness

\* C20: when every lookup returns and no thread panics, every get_lines and
\* every callback that has started, waiting for the lock included, runs to
\* its end, and every guard that was taken is dropped again.
Waits(t) == pc[t] \in {"w_pull", "w_handle", "w_read"}

C20_EveryCallCompletes ==
    /\ [](\A t \in LiveThreads :
            Waits(t) => \A p \in Polys : lock[p].writer # t /\ t \notin lock[p].readers)
    /\ \A t \in LiveThreads : (pc[t] # "idle") ~> (pc[t] = "idle")
    /\ \A p \in Polys : (lock[p].writer # "none") ~> (lock[p].writer = "none")
    /\ \A t \in Renderers :
        (t \in lock["topic"].readers) ~> (t \notin lock["topic"].readers)

\* both locks are held by a thread inside update(), and a render thread is
\* blocked in read() behind the callback
C20_Witness ==
    /\ pc["cb1"] = "cleared"
    /\ lock["topic"].writer = "cb1"
    /\ pc["r2"] = "w_read"
    /\ queue["topic"] = <<"r2">>
    /\ pc["r1"] = "updated"
    /\ lock["param"].writer = "r1"
    /\ committed["topic"].lines_in_static_frame.tag = "Some"

====
